---- MODULE Spec2Model ----
(***************************************************************************)
(* The shard server of src/src/shard/shard.go: the commit controller       *)
(* (Shard.commitHandler with its runners map, its guard mutex and the two  *)
(* goroutines it detaches), the branch and file handlers, and the parts of *)
(* the btrfs repo store and of pipeline.Runner they call.  The btrfs and   *)
(* pipeline packages are not part of the sources at hand; their operators  *)
(* follow the contracts of spec.md sections 4.B and 4.D.                   *)
(***************************************************************************)
EXTENDS Naturals, Sequences, FiniteSets, TLC

\* Number of POST /commit requests the clients send.  They are numbered in
\* the order in which btrfs.Commit returns for them; a request does nothing
\* but read its own query before that, so arrivals are taken in that order too.
NumReq == 3

\* Number of distinct byte contents a client may write to a file.
MaxData == 2

Requests == 1..NumReq

\* HTTP query values a client supplies; "" is an omitted parameter.
BranchQueries == {"", "dev"}
CommitQueries == {"", "c1"}

\* uuid.NewV4().String(): a name no client supplies and no other request draws.
NewV4(r) == "uuid-" \o ToString(r)

\* NewShard's dataRepo and pipelinePrefix.
dataRepo == "data"
pipelinePrefix == "pipe"

\* Contents of a file: 0 is "no such file".
Data == 0..MaxData

\* The files of a snapshot: a data file and the manifest of pipeline p.
FileNames == {"a", "pipeline/p"}

NoFiles == [f \in FileNames |-> 0]

VARIABLES
    store,      \* the disk: path of a snapshot -> [ro, files]
    runners,    \* s.runners: branch -> runner (a Go map: keys present only)
    guard,      \* s.guard: 0 when unlocked, else the request holding it
    pc,         \* where each POST /commit request is in commitHandler
    query,      \* r.URL.Query() of each request
    commit,     \* commitHandler's local `commit`
    oldRunner,  \* commitHandler's locals `oldRunner, ok` (0: ok is false)
    response,   \* what was written to w: [status, body]
    runner,     \* the pipeline.Runner each request constructed
    gpc,        \* where the goroutine of lines 150-162 is
    syncing,    \* number of `go s.SyncToPeers()` goroutines still running
    logged,     \* whether log.Print has been handed an error
    sealOrder,  \* requests in the order btrfs.Commit succeeded for them
    sealedData, \* path of a commit -> files the branch held when it was sealed
    req,        \* the request a handler other than the local commit is serving
    served      \* what that handler has written to w

vars == <<store, runners, guard, pc, query, commit, oldRunner, response,
          runner, gpc, syncing, logged, sealOrder, sealedData, req, served>>

\* The request and response of the handlers that serve in one piece.
client == <<req, served>>

\* The zero value of sync.Mutex: nobody holds s.guard.
Unlocked == 0

\* The nil *pipeline.Runner that `oldRunner` holds when `ok` is false.
NilRunner == 0

(***************************************************************************)
(* Query parameters (shard.go lines 339-351).                              *)
(***************************************************************************)
commitParam(q) == IF q.commit # "" THEN q.commit ELSE "master"

\* A branch parameter taken as sent, without the default of line 348.
branchParamRaw(q) == q.branch

branchParam(q) == IF q.branch # "" THEN q.branch ELSE "master"

(***************************************************************************)
(* The repo store (package btrfs, spec.md section 4.B).  The disk maps the *)
(* path of a snapshot, <repo>/<name>, to the snapshot; a commit is a       *)
(* read-only snapshot, a branch a writable one.                            *)
(***************************************************************************)
\* path.Join of the segments: empty segments are dropped.
RECURSIVE pathJoin(_)
pathJoin(segs) ==
    IF segs = <<>> THEN ""
    ELSE LET rest == pathJoin(Tail(segs)) IN
         IF Head(segs) = "" THEN rest
         ELSE IF rest = "" THEN Head(segs)
         ELSE Head(segs) \o "/" \o rest

Snapshot(ro, files) == [ro |-> ro, files |-> files]

Put(st, path, snap) ==
    [n \in DOMAIN st \cup {path} |-> IF n = path THEN snap ELSE st[n]]

InRepo(repo, name) == pathJoin(<<repo, name>>)

\* btrfs.Commit(repo, commit, branch): the error, "" when there is none.
btrfsCommitErr(st, repo, name, branch) ==
    IF InRepo(repo, branch) \notin DOMAIN st THEN "MissingBranch"
    ELSE IF InRepo(repo, name) \in DOMAIN st THEN "NameTaken"
    ELSE ""

\* btrfs.Commit(repo, commit, branch): the repo after a successful call.
btrfsCommit(st, repo, name, branch) ==
    Put(st, InRepo(repo, name), Snapshot(TRUE, st[InRepo(repo, branch)].files))

\* btrfs.Branch(repo, commit, branch): the error, "" when there is none.
btrfsBranchErr(st, repo, from, branch) ==
    IF InRepo(repo, from) \notin DOMAIN st THEN "MissingCommit"
    ELSE IF InRepo(repo, branch) \in DOMAIN st THEN "BranchExists"
    ELSE ""

\* btrfs.Branch(repo, commit, branch): the repo after a successful call.
btrfsBranch(st, repo, from, branch) ==
    Put(st, InRepo(repo, branch), Snapshot(FALSE, st[InRepo(repo, from)].files))

(***************************************************************************)
(* pipeline.Runner (spec.md section 4.D): Created -> Running ->            *)
(* Completed | Failed | Cancelled.  Cancel is idempotent and may precede   *)
(* Run, which then returns at once.                                        *)
(***************************************************************************)
NoRunner == [state |-> "None", commit |-> "", branch |-> "", cancels |-> 0, runs |-> 0]

NewRunner(inputCommit, branch) ==
    [state |-> "Created", commit |-> inputCommit, branch |-> branch,
     cancels |-> 0, runs |-> 0]

\* Runner.Cancel is entered.
RunnerCancel(rn) ==
    [rn EXCEPT !.cancels = @ + 1,
               !.state = IF @ = "Running" THEN "Cancelled" ELSE @]

\* Runner.Run is entered.
RunnerRun(rn) ==
    [rn EXCEPT !.runs = @ + 1,
               !.state = IF rn.cancels > 0 THEN "Cancelled" ELSE "Running"]

\* Runner.Run leaves on its own account: all pipelines committed, or one failed.
RunnerFinish(rn, failed) ==
    [rn EXCEPT !.state = IF failed THEN "Failed" ELSE "Completed"]

\* The pipelines of a run: the manifests under <dataRepo>/<inputCommit>/pipeline.
Pipelines(st, rn) ==
    {p \in {"p"} : st[InRepo(dataRepo, rn.commit)].files["pipeline/" \o p] # 0}

\* The disk after a completed run: every pipeline has committed inputCommit
\* in its output repo.  What a job writes is its own affair; it is taken to
\* write the file a with the contents of its manifest.
RunnerOutputs(st, rn) ==
    LET out(p) == pathJoin(<<pipelinePrefix, p, rn.commit>>) IN
    [n \in DOMAIN st \cup {out(p) : p \in Pipelines(st, rn)} |->
        IF n \in DOMAIN st THEN st[n]
        ELSE Snapshot(TRUE, [NoFiles EXCEPT
                 !["a"] = st[InRepo(dataRepo, rn.commit)].files["pipeline/p"]])]

\* pipeline.WaitPipeline: "" once the commit is in the output repo, else the
\* error after the bounded wait.
WaitPipeline(st, prefix, pipeline, name) ==
    IF pathJoin(<<prefix, pipeline, name>>) \in DOMAIN st THEN "" ELSE "Timeout"

(***************************************************************************)
(* Shard.commitHandler, POST with an empty body (shard.go lines 131-164),  *)
(* one action per step at which another task may run.                      *)
(***************************************************************************)
Set(f, r, v) == [f EXCEPT ![r] = v]

\* Lines 133-136: the commit name is the query's, or a fresh UUID.
commitName(q, r) == IF q.commit = "" THEN NewV4(r) ELSE q.commit

\* A seal that leaves the snapshot writable, as btrfs.Branch would.
SealWritable(st, name, q) == btrfsBranch(st, dataRepo, branchParam(q), name)

\* Line 137, the call: btrfs.Commit(s.dataRepo, commit, branchParam(r)).
Seal(st, name, q) == btrfsCommit(st, dataRepo, name, branchParam(q))

\* Line 137, its error.
SealErr(st, name, q) == btrfsCommitErr(st, dataRepo, name, branchParam(q))

\* The request arrives, the name is resolved and btrfs.Commit is entered.
Arrive(r) ==
    /\ pc[r] = "idle"
    /\ \A o \in 1..(r - 1) : pc[o] # "idle"
    /\ \E bq \in BranchQueries, cq \in CommitQueries :
         LET q == [branch |-> bq, commit |-> cq] IN
         /\ query' = Set(query, r, q)
         /\ commit' = Set(commit, r, commitName(q, r))
    /\ pc' = Set(pc, r, "sealing")
    /\ UNCHANGED <<store, runners, guard, oldRunner, response, runner, gpc,
                   syncing, logged, sealOrder, sealedData>>

\* Lines 137-141 without the return of line 140: after the error is
\* written the handler goes on to the bookkeeping.
SealEndNoReturn(r) ==
    /\ pc[r] = "sealing"
    /\ \A o \in 1..(r - 1) : pc[o] # "sealing"
    /\ LET err == SealErr(store, commit[r], query[r]) IN
       IF err # ""
       THEN /\ response' = Set(response, r, [status |-> 500, body |-> err])
            /\ UNCHANGED <<store, sealOrder, sealedData>>
       ELSE /\ store' = Seal(store, commit[r], query[r])
            /\ sealOrder' = Append(sealOrder, r)
            /\ sealedData' = Put(sealedData, InRepo(dataRepo, commit[r]),
                                  store[InRepo(dataRepo, branchParam(query[r]))].files)
            /\ UNCHANGED response
    /\ pc' = Set(pc, r, "lock")
    /\ UNCHANGED <<runners, guard, query, commit, oldRunner, runner, gpc,
                   syncing, logged>>

\* btrfs.Commit returns (lines 137-141).
SealEnd(r) ==
    /\ pc[r] = "sealing"
    /\ \A o \in 1..(r - 1) : pc[o] # "sealing"
    /\ LET err == SealErr(store, commit[r], query[r]) IN
       IF err # ""
       THEN /\ response' = Set(response, r, [status |-> 500, body |-> err])
            /\ pc' = Set(pc, r, "done")
            /\ UNCHANGED <<store, sealOrder, sealedData>>
       ELSE /\ store' = Seal(store, commit[r], query[r])
            /\ sealOrder' = Append(sealOrder, r)
            /\ sealedData' = Put(sealedData, InRepo(dataRepo, commit[r]),
                                  store[InRepo(dataRepo, branchParam(query[r]))].files)
            /\ pc' = Set(pc, r, "lock")
            /\ UNCHANGED response
    /\ UNCHANGED <<runners, guard, query, commit, oldRunner, runner, gpc,
                   syncing, logged>>

\* Line 145 left out: the handler goes on without taking s.guard.
LockSkipped(r) ==
    /\ pc[r] = "lock"
    /\ pc' = Set(pc, r, "lookup")
    /\ UNCHANGED <<store, runners, guard, query, commit, oldRunner, response,
                   runner, gpc, syncing, logged, sealOrder, sealedData>>

\* Line 145: s.guard.Lock().
Lock(r) ==
    /\ pc[r] = "lock"
    /\ guard = Unlocked
    /\ guard' = r
    /\ pc' = Set(pc, r, "lookup")
    /\ UNCHANGED <<store, runners, query, commit, oldRunner, response, runner,
                   gpc, syncing, logged, sealOrder, sealedData>>

\* Line 146: oldRunner, ok := s.runners[branchParam(r)].
Lookup(r) ==
    /\ pc[r] = "lookup"
    /\ LET b == branchParam(query[r]) IN
       oldRunner' = Set(oldRunner, r, IF b \in DOMAIN runners THEN runners[b] ELSE NilRunner)
    /\ pc' = Set(pc, r, "install")
    /\ UNCHANGED <<store, runners, guard, query, commit, response, runner,
                   gpc, syncing, logged, sealOrder, sealedData>>

\* Lines 147-148: newRunner := pipeline.NewRunner(...); s.runners[branch] = newRunner.
Install(r) ==
    /\ pc[r] = "install"
    /\ LET b == branchParam(query[r]) IN
       /\ runner' = Set(runner, r, NewRunner(commit[r], b))
       /\ runners' = Put(runners, b, r)
    /\ pc' = Set(pc, r, "unlock")
    /\ UNCHANGED <<store, guard, query, commit, oldRunner, response, gpc,
                   syncing, logged, sealOrder, sealedData>>

\* Line 149 left out: the goroutines are started with s.guard still held.
UnlockForgotten(r) ==
    /\ pc[r] = "unlock"
    /\ gpc' = Set(gpc, r, IF oldRunner[r] # NilRunner THEN "cancel" ELSE "run")
    /\ syncing' = syncing + 1
    /\ pc' = Set(pc, r, "respond")
    /\ UNCHANGED <<store, runners, guard, query, commit, oldRunner, response,
                   runner, logged, sealOrder, sealedData>>

\* Lines 149-163: s.guard.Unlock() and the two go statements, which read
\* no shared state.  The first goroutine starts at the Cancel of oldRunner
\* when ok, else at newRunner.Run().
Unlock(r) ==
    /\ pc[r] = "unlock"
    /\ guard' = Unlocked
    /\ gpc' = Set(gpc, r, IF oldRunner[r] # NilRunner THEN "cancel" ELSE "run")
    /\ syncing' = syncing + 1
    /\ pc' = Set(pc, r, "respond")
    /\ UNCHANGED <<store, runners, query, commit, oldRunner, response, runner,
                   logged, sealOrder, sealedData>>

\* Line 164: fmt.Fprintf(w, "%s\n", commit).
Respond(r) ==
    /\ pc[r] = "respond"
    /\ response' = Set(response, r, [status |-> 200, body |-> commit[r]])
    /\ pc' = Set(pc, r, "done")
    /\ UNCHANGED <<store, runners, guard, query, commit, oldRunner, runner,
                   gpc, syncing, logged, sealOrder, sealedData>>

(***************************************************************************)
(* The goroutine of lines 150-162 and the one of line 163.                 *)
(***************************************************************************)
Log(src, err) == logged \/ err

\* Line 153 with newRunner in place of oldRunner.
CancelNewRunner(r) ==
    /\ gpc[r] = "cancel"
    /\ runner' = Set(runner, r, RunnerCancel(runner[r]))
    /\ gpc' = Set(gpc, r, "cancelling")
    /\ UNCHANGED <<store, runners, guard, pc, query, commit, oldRunner,
                   response, syncing, logged, sealOrder, sealedData>>

\* Line 153 with s.runners[branchParam(r)], read again, in place of oldRunner.
CancelStored(r) ==
    /\ gpc[r] = "cancel"
    /\ LET cur == runners[branchParam(query[r])] IN
       runner' = Set(runner, cur, RunnerCancel(runner[cur]))
    /\ gpc' = Set(gpc, r, "cancelling")
    /\ UNCHANGED <<store, runners, guard, pc, query, commit, oldRunner,
                   response, syncing, logged, sealOrder, sealedData>>

\* Line 153: oldRunner.Cancel() is entered.
CancelBegin(r) ==
    /\ gpc[r] = "cancel"
    /\ runner' = Set(runner, oldRunner[r], RunnerCancel(runner[oldRunner[r]]))
    /\ gpc' = Set(gpc, r, "cancelling")
    /\ UNCHANGED <<store, runners, guard, pc, query, commit, oldRunner,
                   response, syncing, logged, sealOrder, sealedData>>

\* Lines 153-156 with a return after log.Print(err): an error of Cancel
\* ends the goroutine before newRunner.Run().
CancelEndReturnOnErr(r) ==
    /\ gpc[r] = "cancelling"
    /\ \E err \in BOOLEAN :
         /\ logged' = Log("cancel", err)
         /\ gpc' = Set(gpc, r, IF err THEN "done" ELSE "run")
    /\ UNCHANGED <<store, runners, guard, pc, query, commit, oldRunner,
                   response, runner, syncing, sealOrder, sealedData>>

\* Lines 153-156: Cancel returns; its error is logged.
CancelEnd(r) ==
    /\ gpc[r] = "cancelling"
    /\ \E err \in BOOLEAN : logged' = Log("cancel", err)
    /\ gpc' = Set(gpc, r, "run")
    /\ UNCHANGED <<store, runners, guard, pc, query, commit, oldRunner,
                   response, runner, syncing, sealOrder, sealedData>>

\* Line 158 moved above line 152: Run is entered before oldRunner is cancelled.
RunBeforeCancel(r) ==
    /\ gpc[r] \in {"cancel", "run"}
    /\ runner' = Set(runner, r, RunnerRun(runner[r]))
    /\ gpc' = Set(gpc, r, "running")
    /\ UNCHANGED <<store, runners, guard, pc, query, commit, oldRunner,
                   response, syncing, logged, sealOrder, sealedData>>

\* Line 158: newRunner.Run() is entered.
RunBegin(r) ==
    /\ gpc[r] = "run"
    /\ runner' = Set(runner, r, RunnerRun(runner[r]))
    /\ gpc' = Set(gpc, r, "running")
    /\ UNCHANGED <<store, runners, guard, pc, query, commit, oldRunner,
                   response, syncing, logged, sealOrder, sealedData>>

\* Lines 159-161 with http.Error(w, err.Error(), 500) in place of log.Print(err).
RunEndSurfaced(r) ==
    /\ gpc[r] = "running"
    /\ IF runner[r].state = "Running"
       THEN \E failed \in BOOLEAN :
              /\ runner' = Set(runner, r, RunnerFinish(runner[r], failed))
              /\ store' = IF failed THEN store ELSE RunnerOutputs(store, runner[r])
              /\ response' = IF failed
                              THEN Set(response, r, [status |-> 500, body |-> "PipelineFailed"])
                              ELSE response
       ELSE /\ response' = Set(response, r, [status |-> 500, body |-> "Cancelled"])
            /\ UNCHANGED <<runner, store>>
    /\ gpc' = Set(gpc, r, "done")
    /\ UNCHANGED <<runners, guard, pc, query, commit, oldRunner,
                   logged, syncing, sealOrder, sealedData>>

\* Lines 158-161: Run returns; its error is logged.
RunEnd(r) ==
    /\ gpc[r] = "running"
    /\ IF runner[r].state = "Running"
       THEN \E failed \in BOOLEAN :
              /\ runner' = Set(runner, r, RunnerFinish(runner[r], failed))
              /\ store' = IF failed THEN store ELSE RunnerOutputs(store, runner[r])
              /\ logged' = Log("run", failed)
       ELSE /\ logged' = Log("run", TRUE)
            /\ UNCHANGED <<runner, store>>
    /\ gpc' = Set(gpc, r, "done")
    /\ UNCHANGED <<runners, guard, pc, query, commit, oldRunner,
                   response, syncing, sealOrder, sealedData>>

\* Line 163: one s.SyncToPeers() goroutine returns; a failure is logged.
SyncToPeers ==
    /\ syncing > 0
    /\ \E err \in BOOLEAN : logged' = Log("sync", err)
    /\ syncing' = syncing - 1
    /\ UNCHANGED <<store, runners, guard, pc, query, commit, oldRunner,
                   response, runner, gpc, sealOrder, sealedData>>

(***************************************************************************)
(* The commit controller under concurrent POST /commit requests.  The data *)
(* repo holds the branches master and dev, dev forked from master after    *)
(* the manifest of pipeline p was uploaded.                                *)
(***************************************************************************)
NoQuery == [branch |-> "", commit |-> ""]

NoResponse == [status |-> 0, body |-> ""]

\* No request is being served; nothing has been written to w.
NoRequest == [method |-> "", url |-> <<>>, query |-> NoQuery, body |-> 0]

NoServed == [status |-> 0, body |-> "", data |-> 0, fs |-> "", parts |-> <<>>]

Init ==
    /\ store = [n \in {InRepo(dataRepo, "master"), InRepo(dataRepo, "dev")} |->
                  Snapshot(FALSE, [NoFiles EXCEPT !["pipeline/p"] = 1])]
    /\ runners = [b \in {} |-> NilRunner]
    /\ guard = Unlocked
    /\ pc = [r \in Requests |-> "idle"]
    /\ query = [r \in Requests |-> NoQuery]
    /\ commit = [r \in Requests |-> ""]
    /\ oldRunner = [r \in Requests |-> NilRunner]
    /\ response = [r \in Requests |-> NoResponse]
    /\ runner = [r \in Requests |-> NoRunner]
    /\ gpc = [r \in Requests |-> "none"]
    /\ syncing = 0
    /\ logged = FALSE
    /\ sealOrder = <<>>
    /\ sealedData = [c \in {} |-> NoFiles]
    /\ req = NoRequest
    /\ served = NoServed

commitHandler(r) ==
    \/ Arrive(r)
    \/ SealEnd(r)
    \/ Lock(r)
    \/ Lookup(r)
    \/ Install(r)
    \/ Unlock(r)
    \/ Respond(r)

Background(r) ==
    \/ CancelBegin(r)
    \/ CancelEnd(r)
    \/ RunBegin(r)
    \/ RunEnd(r)

Next ==
    \/ \E r \in Requests : commitHandler(r) /\ UNCHANGED client
    \/ \E r \in Requests : Background(r) /\ UNCHANGED client
    \/ SyncToPeers /\ UNCHANGED client

Spec == Init /\ [][Next]_vars

(***************************************************************************)
(* The handlers that serve a request in one piece.  A request is           *)
(* [method, url, query, body] with url = strings.Split(r.URL.Path, "/");   *)
(* a handler maps the disk and the request to the disk after it and the    *)
(* response [status, body, data, fs], fs being the root it served.         *)
(***************************************************************************)
\* url[i] of the Go code, which counts from 0.
Seg(url, i) == url[i + 1]

\* indexOf(url, "file") + 1 (lines 260, 368-375): 0 when "file" is no segment.
fileStart(url) ==
    IF \E i \in 1..Len(url) : url[i] = "file"
    THEN CHOOSE i \in 1..Len(url) : url[i] = "file" /\ \A k \in 1..(i - 1) : url[k] # "file"
    ELSE 0

\* Line 262, below fs: the path of the file inside the snapshot.
fileOf(url) == pathJoin(SubSeq(url, fileStart(url) + 1, Len(url)))

Resp(status, body, data, fs) ==
    [status |-> status, body |-> body, data |-> data, fs |-> fs, parts |-> <<>>]

Out(st, resp) == [store |-> st, resp |-> resp]

\* r.URL.Query().Get("shard") (lines 353-355): "" when the parameter is not sent.
shardParam(q) == IF "shard" \in DOMAIN q THEN q.shard ELSE ""

\* The entries a snapshot can hold, in the order btrfs.Glob lists them.
EntryOrder == <<"a", "b", "pipeline", "pipeline/p">>

\* btrfs.Stat(file).IsDir()
IsDir(e) == e = "pipeline"

\* The entry is in snapshot fs: a file with contents, or the directory of one.
HasEntry(st, fs, e) ==
    LET f == IF IsDir(e) THEN "pipeline/p" ELSE e IN
    f \in DOMAIN st[fs].files /\ st[fs].files[f] # 0

\* The pattern matches the entry: its name, or * for an entry of the root.
GlobMatch(pattern, e) == pattern = e \/ (pattern = "*" /\ e \in {"a", "b", "pipeline"})

\* btrfs.Glob(file): the entries of snapshot fs that match, in order.
btrfsGlob(st, fs, file) ==
    LET hit(e) == GlobMatch(file, e) /\ HasEntry(st, fs, e) IN
    IF fs \in DOMAIN st THEN SelectSeq(EntryOrder, hit) ELSE <<>>

\* route.parseShard: "<n>-<m>" with 0 <= n < m.
parseShard(sh) ==
    CASE sh = "0-2" -> [n |-> 0, m |-> 2, err |-> ""]
      [] sh = "1-2" -> [n |-> 1, m |-> 2, err |-> ""]
      [] OTHER -> [n |-> 0, m |-> 1, err |-> "BadShardSpec"]

\* The hash route.Match takes of a file name.
routeHash(name) == CASE name = "a" -> 0 [] name = "b" -> 1 [] OTHER -> 2

\* route.Match(name, shard): the error.
routeMatchErr(name, sh) == parseShard(sh).err

\* route.Match(name, shard): whether the file belongs to the shard.
routeMatch(name, sh) == routeHash(name) % parseShard(sh).m = parseShard(sh).n

\* A multipart loop that writes every file, whatever the shard parameter.
RECURSIVE multipartUnfiltered(_, _, _, _)
multipartUnfiltered(st, fs, files, sh) ==
    IF files = <<>> THEN [err |-> "", parts |-> <<>>]
    ELSE LET e == Head(files)
             rest == multipartUnfiltered(st, fs, Tail(files), sh) IN
         IF IsDir(e) THEN rest
         ELSE [err |-> rest.err,
               parts |-> <<[name |-> e, data |-> st[fs].files[e]]>> \o rest.parts]

\* The loop of lines 280-312 over the entries that are left: the parts
\* written, and the error that ended the loop.
RECURSIVE multipart(_, _, _, _)
multipart(st, fs, files, sh) ==
    IF files = <<>> THEN [err |-> "", parts |-> <<>>]
    ELSE LET e == Head(files) IN
         IF IsDir(e) THEN multipart(st, fs, Tail(files), sh)
         ELSE IF sh # "" /\ routeMatchErr(e, sh) # ""
         THEN [err |-> routeMatchErr(e, sh), parts |-> <<>>]
         ELSE IF sh # "" /\ ~routeMatch(e, sh) THEN multipart(st, fs, Tail(files), sh)
         ELSE LET rest == multipart(st, fs, Tail(files), sh) IN
              [err |-> rest.err,
               parts |-> <<[name |-> e, data |-> st[fs].files[e]]>> \o rest.parts]

\* btrfs.CreateFromReader and btrfs.CopyFile, after btrfs.MkdirAll: the error.
btrfsWriteErr(st, fs, file) ==
    IF fs \in DOMAIN st /\ st[fs].ro THEN "ReadOnly"
    ELSE IF file \notin FileNames THEN "IO"
    ELSE ""

\* btrfs.CreateFromReader and btrfs.CopyFile, after btrfs.MkdirAll: the repo
\* after a successful call; the directories on the way are created.
btrfsWrite(st, fs, file, body) ==
    LET old == IF fs \in DOMAIN st THEN st[fs].files ELSE NoFiles IN
    Put(st, fs, Snapshot(FALSE, [old EXCEPT ![file] = body]))

\* btrfs.Remove: the error.
btrfsRemoveErr(st, fs, file) ==
    IF fs \notin DOMAIN st THEN "NotFound"
    ELSE IF st[fs].ro THEN "ReadOnly"
    ELSE IF file \notin FileNames THEN "NotFound"
    ELSE IF st[fs].files[file] = 0 THEN "NotFound"
    ELSE ""

\* btrfs.Remove: the repo after a successful call.
btrfsRemove(st, fs, file) == [st EXCEPT ![fs].files[file] = 0]

\* genericFileHandler (lines 257-337).  An error that ends the multipart
\* loop is a 500 when no part has been written before it.
genericFileHandler(fs, st, rq) ==
    LET file == fileOf(rq.url) IN
    CASE rq.method = "GET" ->
           LET files == btrfsGlob(st, fs, file) IN
           IF Len(files) = 0 THEN Out(st, Resp(404, "404 page not found", 0, fs))
           ELSE IF Len(files) = 1
           THEN IF IsDir(files[1]) THEN Out(st, Resp(200, "listing", 0, fs))
                ELSE Out(st, Resp(200, "", st[fs].files[files[1]], fs))
           ELSE LET m == multipart(st, fs, files, shardParam(rq.query)) IN
                Out(st, [Resp(IF m.err # "" /\ m.parts = <<>> THEN 500 ELSE 200,
                              m.err, 0, fs) EXCEPT !.parts = m.parts])
      [] rq.method = "POST" ->
           LET err == btrfsWriteErr(st, fs, file) IN
           IF err # "" THEN Out(st, Resp(500, err, 0, fs))
           ELSE Out(btrfsWrite(st, fs, file, rq.body), Resp(200, "Created", 0, fs))
      [] rq.method = "PUT" ->
           LET err == btrfsWriteErr(st, fs, file) IN
           IF err # "" THEN Out(st, Resp(500, err, 0, fs))
           ELSE Out(btrfsWrite(st, fs, file, rq.body), Resp(200, "Created", 0, fs))
      [] rq.method = "DELETE" ->
           LET err == btrfsRemoveErr(st, fs, file) IN
           IF err # "" THEN Out(st, Resp(500, err, 0, fs))
           ELSE Out(btrfsRemove(st, fs, file), Resp(200, "Deleted", 0, fs))
      [] OTHER -> Out(st, Resp(200, "", 0, fs))

\* Shard.fileHandler (lines 94-102).
fileHandler(st, rq) ==
    IF rq.method \in {"POST", "DELETE", "PUT"}
    THEN genericFileHandler(pathJoin(<<dataRepo, branchParam(rq.query)>>), st, rq)
    ELSE IF rq.method = "GET"
    THEN genericFileHandler(pathJoin(<<dataRepo, commitParam(rq.query)>>), st, rq)
    ELSE Out(st, Resp(405, "Invalid method.", 0, ""))

\* Shard.branchHandler (lines 180-217); the GET lists the writable snapshots.
branchHandler(st, rq) ==
    IF Len(rq.url) > 3 /\ Seg(rq.url, 3) = "file"
    THEN genericFileHandler(pathJoin(<<dataRepo, Seg(rq.url, 2)>>), st, rq)
    ELSE IF rq.method = "GET"
    THEN Out(st, Resp(200, "branches", 0, ""))
    ELSE IF rq.method = "POST"
    THEN LET err == btrfsBranchErr(st, dataRepo, commitParam(rq.query), branchParam(rq.query)) IN
         IF err # "" THEN Out(st, Resp(500, err, 0, ""))
         ELSE Out(btrfsBranch(st, dataRepo, commitParam(rq.query), branchParam(rq.query)),
                  Resp(200, "Created branch. (" \o commitParam(rq.query) \o ") -> "
                            \o branchParam(rq.query) \o ".", 0, ""))
    ELSE Out(st, Resp(405, "Invalid method.", 0, ""))

\* A pipelineHandler that serves without waiting for the commit.
pipelineHandlerNoWait(st, rq) ==
    IF rq.method = "GET" /\ Len(rq.url) > 3 /\ Seg(rq.url, 3) = "file"
    THEN genericFileHandler(
             pathJoin(<<pipelinePrefix, Seg(rq.url, 2), commitParam(rq.query)>>), st, rq)
    ELSE Out(st, Resp(405, "Invalid method.", 0, ""))

\* Shard.pipelineHandler (lines 219-239).  WaitPipeline is taken at its
\* outcome: the commit is there, or the wait has run out.
pipelineHandler(st, rq) ==
    IF rq.method = "GET" /\ Len(rq.url) > 3 /\ Seg(rq.url, 3) = "file"
    THEN LET err == WaitPipeline(st, pipelinePrefix, Seg(rq.url, 2), commitParam(rq.query)) IN
         IF err # "" THEN Out(st, Resp(500, err, 0, ""))
         ELSE genericFileHandler(
                  pathJoin(<<pipelinePrefix, Seg(rq.url, 2), commitParam(rq.query)>>), st, rq)
    ELSE IF rq.method = "POST"
    THEN genericFileHandler(pathJoin(<<dataRepo, branchParam(rq.query)>>), st,
             [rq EXCEPT !.url = <<"", "file", "pipeline", Seg(rq.url, 2)>>])
    ELSE Out(st, Resp(405, "Invalid method.", 0, ""))

\* r.URL.Query().Get("from"): "" when the parameter is not sent.
fromParam(q) == IF "from" \in DOMAIN q THEN q.from ELSE ""

\* The commit a pushed body carries: body d is the pull stream of a peer
\* whose d-th commit is new here.
PushedName(d) == "push-" \o ToString(d)

\* LocalReplica.Push: the error.  A part whose parent is not here fails.
replicaPushErr(st, d) ==
    IF d > 1 /\ InRepo(dataRepo, PushedName(d - 1)) \notin DOMAIN st
    THEN "MissingParent" ELSE ""

\* LocalReplica.Push: the disk after a successful call.  A commit that is
\* already here is left as it is.
replicaPush(st, d) ==
    IF InRepo(dataRepo, PushedName(d)) \in DOMAIN st THEN st
    ELSE Put(st, InRepo(dataRepo, PushedName(d)),
             Snapshot(TRUE, [NoFiles EXCEPT !["a"] = d]))

\* LocalReplica.Pull: the error.
replicaPullErr(st, from) ==
    IF from # "" /\ InRepo(dataRepo, from) \notin DOMAIN st THEN "NotFound" ELSE ""

\* Shard.commitHandler (lines 105-177) taken in one piece: the disk after it
\* and the response.  For the POST without body (lines 131-164) that is the
\* seal and the answer; its bookkeeping of the runners is in the actions
\* Arrive to Respond.
commitHandlerServe(st, rq) ==
    IF Len(rq.url) > 3 /\ Seg(rq.url, 3) = "file"
    THEN genericFileHandler(pathJoin(<<dataRepo, Seg(rq.url, 2)>>), st, rq)
    ELSE IF rq.method = "GET"
    THEN Out(st, Resp(200, "commits", 0, ""))
    ELSE IF rq.method = "POST" /\ rq.body = 0
    THEN LET name == commitName(rq.query, 0)
             err == SealErr(st, name, rq.query) IN
         IF err # "" THEN Out(st, Resp(500, err, 0, ""))
         ELSE Out(Seal(st, name, rq.query), Resp(200, name, 0, ""))
    ELSE IF rq.method = "POST"
    THEN LET err == replicaPushErr(st, rq.body) IN
         IF err # "" THEN Out(st, Resp(500, err, 0, ""))
         ELSE Out(replicaPush(st, rq.body), Resp(200, "", 0, ""))
    ELSE Out(st, Resp(405, "Unsupported method.", 0, ""))

\* The handler of "/ping" (line 82).
pingHandler(st, rq) == Out(st, Resp(200, "pong", 0, ""))

\* Shard.pullHandler (lines 241-253).
pullHandler(st, rq) ==
    LET err == replicaPullErr(st, fromParam(rq.query)) IN
    IF err # "" THEN Out(st, Resp(500, err, 0, ""))
    ELSE Out(st, Resp(200, "", 0, ""))

\* Shard.ShardMux (lines 75-86) with the matching of http.ServeMux: a
\* pattern without a trailing slash ("/branch", "/commit", "/ping",
\* "/pull") matches that path alone; "/file/" and "/pipeline/" match every
\* path below them, and the path without the slash is redirected to them.
ShardMux(st, rq) ==
    IF rq.url = <<"", "branch">> THEN branchHandler(st, rq)
    ELSE IF rq.url = <<"", "commit">> THEN commitHandlerServe(st, rq)
    ELSE IF Len(rq.url) >= 3 /\ Seg(rq.url, 1) = "file" THEN fileHandler(st, rq)
    ELSE IF Len(rq.url) >= 3 /\ Seg(rq.url, 1) = "pipeline" THEN pipelineHandler(st, rq)
    ELSE IF rq.url = <<"", "ping">> THEN pingHandler(st, rq)
    ELSE IF rq.url = <<"", "pull">> THEN pullHandler(st, rq)
    ELSE IF rq.url \in {<<"", "file">>, <<"", "pipeline">>}
    THEN Out(st, Resp(301, "Moved Permanently", 0, ""))
    ELSE Out(st, Resp(404, "404 page not found", 0, ""))

\* Values of the branch and commit parameters a client may send.
ParamValues == BranchQueries \cup CommitQueries

Queries == [branch : ParamValues, commit : ParamValues]

\* The requests that change the data repo without going through /commit.
WriteRequests ==
    [method : {"POST", "PUT", "DELETE"}, url : {<<"", "file", "a">>},
     query : [branch : ParamValues, commit : {""}], body : Data \ {0}]
    \cup [method : {"POST"}, url : {<<"", "branch">>}, query : Queries, body : {0}]

\* One write request is served; its response goes to the client.
ServeWrite ==
    /\ \E rq \in WriteRequests : store' = ShardMux(store, rq).store
    /\ UNCHANGED <<runners, guard, pc, query, commit, oldRunner, response,
                   runner, gpc, syncing, logged, sealOrder, sealedData>>

\* No POST /commit is being served.
Quiet == \A r \in Requests : pc[r] \in {"idle", "done"}

(***************************************************************************)
(* The data repo under writes, branchings and commits.  Only the return of *)
(* btrfs.Commit touches the repo in a POST /commit, so the commits are     *)
(* taken one after the other; the writes fall anywhere between the steps.  *)
(* The goroutines a commit starts do not touch the data repo: they are     *)
(* started and left unscheduled.                                           *)
(***************************************************************************)
InitStore ==
    /\ store = [n \in {InRepo(dataRepo, "master")} |-> Snapshot(FALSE, NoFiles)]
    /\ runners = [b \in {} |-> NilRunner]
    /\ guard = Unlocked
    /\ pc = [r \in Requests |-> "idle"]
    /\ query = [r \in Requests |-> NoQuery]
    /\ commit = [r \in Requests |-> ""]
    /\ oldRunner = [r \in Requests |-> NilRunner]
    /\ response = [r \in Requests |-> NoResponse]
    /\ runner = [r \in Requests |-> NoRunner]
    /\ gpc = [r \in Requests |-> "none"]
    /\ syncing = 0
    /\ logged = FALSE
    /\ sealOrder = <<>>
    /\ sealedData = [c \in {} |-> NoFiles]
    /\ req = NoRequest
    /\ served = NoServed

NextStore ==
    \/ ServeWrite /\ UNCHANGED client
    \/ \E r \in Requests : Quiet /\ Arrive(r) /\ UNCHANGED client
    \/ \E r \in Requests :
          /\ SealEnd(r) \/ Lock(r) \/ Lookup(r) \/ Install(r) \/ Unlock(r) \/ Respond(r)
          /\ UNCHANGED client

SpecStore == InitStore /\ [][NextStore]_vars

(***************************************************************************)
(* One GET of the files of a snapshot: the snapshot and the request are    *)
(* any of a bounded set, and the handler serves the request.               *)
(***************************************************************************)
\* The files of the snapshots read by glob.
GlobNames == {"a", "b", "pipeline/p"}

ShardValues == {"0-2", "1-2", "bad"}

GlobRequests ==
    {[method |-> "GET", url |-> <<"", "file">> \o u, query |-> q, body |-> 0] :
        u \in {<<"*">>, <<"a">>, <<"pipeline">>, <<"pipeline", "p">>},
        q \in {NoQuery} \cup {[branch |-> "", commit |-> "", shard |-> sh] : sh \in ShardValues}}

\* The handler serves the request and writes the response.
Serve ==
    /\ req # NoRequest
    /\ served = NoServed
    /\ LET out == ShardMux(store, req) IN
       /\ store' = out.store
       /\ served' = out.resp
    /\ UNCHANGED <<runners, guard, pc, query, commit, oldRunner, response,
                   runner, gpc, syncing, logged, sealOrder, sealedData, req>>

InitGlob ==
    /\ store \in {[n \in {InRepo(dataRepo, "master")} |-> Snapshot(FALSE, fl)] :
                     fl \in [GlobNames -> Data]}
    /\ req \in GlobRequests
    /\ served = NoServed
    /\ runners = [b \in {} |-> NilRunner]
    /\ guard = Unlocked
    /\ pc = [r \in Requests |-> "idle"]
    /\ query = [r \in Requests |-> NoQuery]
    /\ commit = [r \in Requests |-> ""]
    /\ oldRunner = [r \in Requests |-> NilRunner]
    /\ response = [r \in Requests |-> NoResponse]
    /\ runner = [r \in Requests |-> NoRunner]
    /\ gpc = [r \in Requests |-> "none"]
    /\ syncing = 0
    /\ logged = FALSE
    /\ sealOrder = <<>>
    /\ sealedData = [c \in {} |-> NoFiles]

NextGlob == Serve

SpecGlob == InitGlob /\ [][NextGlob]_vars

(***************************************************************************)
(* A read of a pipeline's output while commits are made and their runners  *)
(* run.  The handler is blocked in WaitPipeline for as long as Serve is    *)
(* not taken; when it is, the wait has ended one way or the other.         *)
(***************************************************************************)
PipelineReads ==
    [method : {"GET"}, url : {<<"", "pipeline", "p", "file", "a">>},
     query : [branch : {""}, commit : CommitQueries], body : {0}]

InitPipe ==
    /\ store = [n \in {InRepo(dataRepo, "master"), InRepo(dataRepo, "dev")} |->
                  Snapshot(FALSE, [NoFiles EXCEPT !["pipeline/p"] = 1])]
    /\ req \in PipelineReads
    /\ served = NoServed
    /\ runners = [b \in {} |-> NilRunner]
    /\ guard = Unlocked
    /\ pc = [r \in Requests |-> "idle"]
    /\ query = [r \in Requests |-> NoQuery]
    /\ commit = [r \in Requests |-> ""]
    /\ oldRunner = [r \in Requests |-> NilRunner]
    /\ response = [r \in Requests |-> NoResponse]
    /\ runner = [r \in Requests |-> NoRunner]
    /\ gpc = [r \in Requests |-> "none"]
    /\ syncing = 0
    /\ logged = FALSE
    /\ sealOrder = <<>>
    /\ sealedData = [c \in {} |-> NoFiles]

NextPipe ==
    \/ Serve
    \/ \E r \in Requests : Quiet /\ Arrive(r) /\ UNCHANGED client
    \/ \E r \in Requests :
          /\ SealEnd(r) \/ Lock(r) \/ Lookup(r) \/ Install(r) \/ Unlock(r) \/ Respond(r)
          /\ UNCHANGED client
    \/ \E r \in Requests : Background(r) /\ UNCHANGED client

SpecPipe == InitPipe /\ [][NextPipe]_vars

(***************************************************************************)
(* Pushes from peers among local commits.  A push is a POST /commit whose  *)
(* body is not empty (line 131 fails, lines 165-171 run); the peer gets    *)
(* the response.  The goroutines of the local commits are started and     *)
(* left unscheduled, so that syncing counts the peer syncs triggered.      *)
(***************************************************************************)
PushRequests ==
    [method : {"POST"}, url : {<<"", "commit">>}, query : {NoQuery}, body : Data \ {0}]

\* A push that goes on to trigger a peer sync of its own.
PushThenSync ==
    /\ \E rq \in PushRequests : store' = ShardMux(store, rq).store
    /\ syncing' = syncing + 1
    /\ UNCHANGED <<runners, guard, pc, query, commit, oldRunner, response,
                   runner, gpc, logged, sealOrder, sealedData>>

\* Lines 165-171: replica.Push(r.Body), and nothing else.
Push ==
    /\ \E rq \in PushRequests : store' = ShardMux(store, rq).store
    /\ UNCHANGED <<runners, guard, pc, query, commit, oldRunner, response,
                   runner, gpc, syncing, logged, sealOrder, sealedData>>

NextPush ==
    \/ Push /\ UNCHANGED client
    \/ \E r \in Requests : commitHandler(r) /\ UNCHANGED client

SpecPush == Init /\ [][NextPush]_vars

(***************************************************************************)
(* The commit controller under fair scheduling: a handler that can take    *)
(* its next step takes it, and so does a goroutine; every call of Cancel   *)
(* and of Run returns.  Requests need not arrive; they arrive one after    *)
(* the other, their goroutines run side by side.                           *)
(***************************************************************************)
NextLive ==
    \/ \E r \in Requests : Quiet /\ Arrive(r) /\ UNCHANGED client
    \/ \E r \in Requests :
          /\ SealEnd(r) \/ Lock(r) \/ Lookup(r) \/ Install(r) \/ Unlock(r) \/ Respond(r)
          /\ UNCHANGED client
    \/ \E r \in Requests : Background(r) /\ UNCHANGED client

Fairness ==
    \A r \in Requests :
        /\ WF_vars((SealEnd(r) \/ Lock(r) \/ Lookup(r) \/ Install(r) \/ Unlock(r)
                     \/ Respond(r)) /\ UNCHANGED client)
        /\ WF_vars(Background(r) /\ UNCHANGED client)

SpecLive == Init /\ [][NextLive]_vars /\ Fairness

(***************************************************************************)
(* Vocabulary of the properties.                                           *)
(***************************************************************************)
\* btrfs.Commit has succeeded for request r.
Sealed(r) == \E i \in 1..Len(sealOrder) : sealOrder[i] = r

\* Request r has stored its runner into s.runners.
Installed(r) == runner[r].state # "None"

\* Request i was sealed before request j.
SealedBefore(i, j) ==
    \E m, n \in 1..Len(sealOrder) : m < n /\ sealOrder[m] = i /\ sealOrder[n] = j

\* Request i stored its runner before request j did, under the same key:
\* i is on the chain of oldRunner values that starts at j.
RECURSIVE InstalledBefore(_, _)
InstalledBefore(i, j) ==
    /\ Installed(j)
    /\ oldRunner[j] # NilRunner
    /\ oldRunner[j] = i \/ InstalledBefore(i, oldRunner[j])

\* The requests that have stored a runner under branch b.
InstalledOn(b) == {r \in Requests : Installed(r) /\ runner[r].branch = b}

\* Run has been started on the runner of request r, has not completed, and
\* Cancel has not been invoked on it.
Active(r) ==
    /\ runner[r].runs > 0
    /\ runner[r].state \notin {"Completed", "Failed", "Cancelled"}
    /\ runner[r].cancels = 0

Branches == {branchParam([branch |-> bq, commit |-> ""]) : bq \in BranchQueries}

(***************************************************************************)
(* C1.  At every moment each branch has at most one active runner: no two  *)
(* runners of one branch are both started, not completed and not           *)
(* cancelled.  Three commits on one branch break it: the goroutine of the  *)
(* third starts its runner while the first runner is still running,        *)
(* because only the goroutine of the second cancels the first.             *)
(***************************************************************************)
AtMostOneActiveRunner ==
    \A i, j \in Requests :
        (i # j /\ Active(i) /\ Active(j)) => runner[i].branch # runner[j].branch

(***************************************************************************)
(* C2.  The runners map holds one runner per branch key; the runner under  *)
(* key b was constructed by a POST /commit whose branch parameter resolved *)
(* to b; the map is read and written only by the holder of s.guard.        *)
(***************************************************************************)
RunnersMapInv ==
    /\ \A b \in DOMAIN runners :
         /\ runners[b] \in Requests
         /\ Installed(runners[b])
         /\ runner[runners[b]].branch = b
         /\ branchParam(query[runners[b]]) = b
    /\ \A b \in Branches :
         InstalledOn(b) # {} => b \in DOMAIN runners /\ runners[b] \in InstalledOn(b)
    /\ \A r \in Requests : pc[r] \in {"lookup", "install", "unlock"} => guard = r

RunnersMapWitness ==
    /\ DOMAIN runners = Branches
    /\ \E r \in Requests : pc[r] = "unlock" /\ oldRunner[r] # NilRunner

(***************************************************************************)
(* C3.  As claimed: for two commits C1 then C2 on one branch B, once both  *)
(* POSTs have returned the runner stored for B is the one of C2, at most   *)
(* one runner of B is live, and Cancel has been invoked on the runner of   *)
(* C1.  The last part fails: Cancel is invoked by a detached goroutine,    *)
(* which may not have run when the POSTs return.                           *)
(***************************************************************************)
TwoCommits(b, i, j) ==
    /\ InstalledOn(b) = {i, j}
    /\ i # j
    /\ oldRunner[j] = i

SuccessionAtReturn ==
    \A b \in Branches : \A i, j \in Requests :
        (TwoCommits(b, i, j) /\ pc[i] = "done" /\ pc[j] = "done") =>
            /\ runners[b] = j
            /\ ~(Active(i) /\ Active(j))
            /\ runner[i].cancels >= 1

\* C3 as amended: the runner stored for B is the one of C2 and at most one
\* runner of B is live once both POSTs have returned; Cancel has been invoked
\* on the runner of C1 as soon as the runner of C2 has been started, which
\* may be after both POSTs have returned.
Succession ==
    \A b \in Branches : \A i, j \in Requests :
        TwoCommits(b, i, j) =>
            /\ (pc[i] = "done" /\ pc[j] = "done") =>
                   (runners[b] = j /\ ~(Active(i) /\ Active(j)))
            /\ runner[j].runs > 0 => runner[i].cancels >= 1

SuccessionWitness ==
    \E b \in Branches : \E i, j \in Requests :
        /\ TwoCommits(b, i, j)
        /\ pc[i] = "done" /\ pc[j] = "done"
        /\ runner[i].state = "Cancelled"
        /\ Active(j)

(***************************************************************************)
(* C4.  When Run is started on the runner of a commit that replaced        *)
(* another runner, Cancel has been invoked on the replaced runner and has  *)
(* returned.                                                               *)
(***************************************************************************)
CancelBeforeRun ==
    \A r \in Requests :
        (runner[r].runs > 0 /\ oldRunner[r] # NilRunner) =>
            /\ runner[oldRunner[r]].cancels >= 1
            /\ gpc[r] \notin {"cancel", "cancelling"}

CancelBeforeRunWitness ==
    \E r \in Requests :
        /\ runner[r].state = "Running"
        /\ oldRunner[r] # NilRunner
        /\ runner[oldRunner[r]].state = "Cancelled"

(***************************************************************************)
(* C5.  Commits on one branch are installed in the order in which they     *)
(* were sealed, so that once every request has finished the runner stored  *)
(* for the branch is pinned to the commit sealed last.  The seal of line   *)
(* 137 is outside s.guard: a request sealed later may lock first.          *)
(***************************************************************************)
LastSealedOn(b) ==
    {r \in InstalledOn(b) : \A o \in InstalledOn(b) : o = r \/ SealedBefore(o, r)}

SealOrderIsInstallOrder ==
    /\ \A i, j \in Requests :
         (i # j /\ Installed(i) /\ Installed(j) /\ runner[i].branch = runner[j].branch) =>
             (SealedBefore(i, j) <=> InstalledBefore(i, j))
    /\ (\A r \in Requests : pc[r] = "done") =>
         \A b \in DOMAIN runners : runners[b] \in LastSealedOn(b)

(***************************************************************************)
(* C6.  The seal steps (btrfs.Commit) of two requests on one branch never  *)
(* overlap in time.  Line 137 runs before s.guard is locked, so they do.   *)
(***************************************************************************)
NoOverlappingSeals ==
    \A i, j \in Requests :
        (i # j /\ pc[i] = "sealing" /\ pc[j] = "sealing") =>
            branchParam(query[i]) # branchParam(query[j])

(***************************************************************************)
(* C7.  s.guard is held only across the bookkeeping of lines 146-148: its  *)
(* holder is not in btrfs.Commit, not writing the response, and none of    *)
(* its goroutines (Cancel, Run, SyncToPeers) has been started.  Every      *)
(* acquisition is followed by a release: the holder can always take its    *)
(* next step up to Unlock, and a request waiting at Lock can take the      *)
(* mutex whenever it is free, so none waits for it forever.                *)
(***************************************************************************)
Started(r) == pc[r] \in {"respond", "done"} /\ Sealed(r)

GuardOnlyBookkeeping ==
    /\ guard # Unlocked =>
         /\ pc[guard] \in {"lookup", "install", "unlock"}
         /\ gpc[guard] = "none"
    /\ syncing <= Cardinality({r \in Requests : Started(r)})

MutexDiscipline ==
    /\ GuardOnlyBookkeeping
    /\ guard # Unlocked => ENABLED (Lookup(guard) \/ Install(guard) \/ Unlock(guard))
    /\ \A r \in Requests : (pc[r] = "lock" /\ guard = Unlocked) => ENABLED Lock(r)

MutexDisciplineWitness ==
    \E i, j \in Requests :
        /\ guard = i /\ pc[i] = "unlock"
        /\ pc[j] = "lock"
        /\ \E o \in Requests : gpc[o] = "running"

(***************************************************************************)
(* C8.  Once the seal has succeeded the request answers 200 with the       *)
(* commit name: the response is written without waiting for the            *)
(* goroutines, and no outcome of Cancel, Run or SyncToPeers changes it.    *)
(***************************************************************************)
Answered(r) == response[r] = [status |-> 200, body |-> commit[r]]

ResponseIndependent ==
    /\ [](\A r \in Requests : (pc[r] = "done" /\ Sealed(r)) => Answered(r))
    /\ [](\A r \in Requests : pc[r] = "respond" => ENABLED Respond(r))
    /\ [][\A r \in Requests : pc[r] = "done" => response'[r] = response[r]]_vars

ResponseIndependentWitness ==
    \E i, j \in Requests :
        /\ pc[i] = "done" /\ Answered(i) /\ runner[i].state = "Failed"
        /\ pc[j] = "done" /\ Answered(j) /\ gpc[j] = "cancel" /\ commit[j] = "c1"
        /\ logged

(***************************************************************************)
(* C9.  A sealed commit is immutable: whatever is written, branched or     *)
(* committed afterwards, a GET /file/<f>?commit=<c> of a commit c that was *)
(* sealed serves, for every file f, what the branch held when c was sealed *)
(* (404 for a file the branch did not hold).                               *)
(***************************************************************************)
urlOfFile(f) == IF f = "a" THEN <<"", "file", "a">> ELSE <<"", "file", "pipeline", "p">>

\* GET /file/<f>?commit=<c>
ReadAt(c, f) ==
    [method |-> "GET", url |-> urlOfFile(f),
     query |-> [branch |-> "", commit |-> c], body |-> 0]

SealedNames == {c \in ParamValues \cup {NewV4(r) : r \in Requests} :
                   InRepo(dataRepo, c) \in DOMAIN sealedData}

CommitImmutable ==
    \A c \in SealedNames, f \in FileNames :
        LET held == sealedData[InRepo(dataRepo, c)][f]
            out == ShardMux(store, ReadAt(c, f)) IN
        /\ out.resp.data = held
        /\ out.resp.status = IF held = 0 THEN 404 ELSE 200
        /\ out.store = store

\* Two commits of master were sealed with different contents of the file a,
\* and master has been written again since.
CommitImmutableWitness ==
    \E c1, c2 \in SealedNames :
        /\ sealedData[InRepo(dataRepo, c1)]["a"] = 1
        /\ sealedData[InRepo(dataRepo, c2)]["a"] = 2
        /\ store[InRepo(dataRepo, "master")].files["a"] = 0
        /\ ShardMux(store, ReadAt(c1, "a")).resp.data = 1

(***************************************************************************)
(* C10.  An omitted branch parameter resolves to "master" on every         *)
(* endpoint that reads it, POST /commit included.  An omitted commit       *)
(* parameter resolves to "master" on POST /branch, on file reads and on    *)
(* pipeline reads; on POST /commit it resolves to a freshly generated      *)
(* UUID instead.                                                           *)
(***************************************************************************)
\* The queries that omit a parameter.
OmittingQueries == {q \in Queries : q.branch = "" \/ q.commit = ""}

\* The requests, omitting a parameter, of the endpoints that read branch or
\* commit through branchParam and commitParam.
ParamRequests ==
    [method : {"GET", "POST", "PUT", "DELETE"}, url : {<<"", "file", "a">>},
     query : OmittingQueries, body : {1}]
    \cup [method : {"POST"}, url : {<<"", "branch">>, <<"", "pipeline", "p">>},
          query : OmittingQueries, body : {1}]
    \cup [method : {"GET"}, url : {<<"", "pipeline", "p", "file", "a">>},
          query : OmittingQueries, body : {1}]

\* The request with its omitted parameters spelled out as master.
WithBranchMaster(q) == [q EXCEPT !.branch = IF @ = "" THEN "master" ELSE @]

WithCommitMaster(q) == [q EXCEPT !.commit = IF @ = "" THEN "master" ELSE @]

\* A request that omits a parameter is served exactly as the request that
\* names master: same disk afterwards, same response, same root served.
HandlersDefaultToMaster ==
    \A rq \in ParamRequests :
        LET out == ShardMux(store, rq) IN
        /\ rq.query.branch = "" =>
             out = ShardMux(store, [rq EXCEPT !.query = WithBranchMaster(@)])
        /\ rq.query.commit = "" =>
             out = ShardMux(store, [rq EXCEPT !.query = WithCommitMaster(@)])

\* POST /commit seals, and installs its runner, as for branch=master.
CommitBranchDefaultsToMaster ==
    \A r \in Requests :
        /\ pc[r] = "sealing" =>
             /\ SealErr(store, commit[r], query[r])
                  = SealErr(store, commit[r], WithBranchMaster(query[r]))
             /\ SealErr(store, commit[r], query[r]) = "" =>
                  Seal(store, commit[r], query[r])
                   = Seal(store, commit[r], WithBranchMaster(query[r]))
        /\ (Installed(r) /\ query[r].branch = "") =>
             /\ runner[r].branch = "master"
             /\ "master" \in DOMAIN runners

\* The claim as stated: POST /commit, too, names the commit master.
DefaultsToMasterEverywhere ==
    /\ HandlersDefaultToMaster
    /\ CommitBranchDefaultsToMaster
    /\ \A r \in Requests :
         (pc[r] # "idle" /\ query[r].commit = "") => commit[r] = "master"

DefaultsToMaster ==
    /\ HandlersDefaultToMaster
    /\ CommitBranchDefaultsToMaster
    /\ \A r \in Requests :
         (pc[r] # "idle" /\ query[r].commit = "") => commit[r] = NewV4(r)

\* A POST /commit without parameters was answered, and a GET /file/a without
\* parameters serves what master holds.
DefaultsToMasterWitness ==
    /\ \E r \in Requests :
         /\ pc[r] = "done" /\ query[r] = NoQuery /\ Answered(r)
         /\ commit[r] = NewV4(r)
         /\ runner[r].branch = "master"
    /\ LET out == ShardMux(store, [method |-> "GET", url |-> <<"", "file", "a">>,
                                   query |-> NoQuery, body |-> 0]) IN
       /\ out.resp.status = 200
       /\ out.resp.data = 2
       /\ out.resp.fs = InRepo(dataRepo, "master")

(***************************************************************************)
(* C11.  A request whose method and URL are not a row of the route table   *)
(* is answered with 405 or 404 and a diagnostic body, and leaves the disk  *)
(* as it was.                                                              *)
(***************************************************************************)
\* PATCH stands for every method the route table does not name.
Methods == {"GET", "POST", "PUT", "DELETE", "PATCH"}

Urls ==
    {<<"", "ping">>, <<"", "pull">>, <<"", "commit">>, <<"", "branch">>,
     <<"", "file", "a">>, <<"", "commit", "c1", "file", "a">>,
     <<"", "branch", "dev", "file", "a">>, <<"", "pipeline", "p">>,
     <<"", "pipeline", "p", "file", "a">>, <<"", "nowhere">>}

AllRequests == [method : Methods, url : Urls, query : {NoQuery}, body : {0, 1}]

\* The rows of the route table (spec.md section 6).
InRouteTable(rq) ==
    \/ rq.method = "GET" /\ rq.url \in {<<"", "ping">>, <<"", "pull">>, <<"", "commit">>,
                                        <<"", "branch">>}
    \/ rq.method = "POST" /\ rq.url \in {<<"", "commit">>, <<"", "branch">>}
    \/ rq.method \in {"GET", "POST", "PUT", "DELETE"} /\ rq.url = <<"", "file", "a">>
    \/ rq.method = "GET" /\ rq.url = <<"", "commit", "c1", "file", "a">>
    \/ rq.method = "GET" /\ rq.url = <<"", "pipeline", "p", "file", "a">>
    \/ rq.method = "POST" /\ rq.url = <<"", "pipeline", "p">>

IllegalRequests == {rq \in AllRequests : ~InRouteTable(rq)}

IllegalRejected ==
    \A rq \in IllegalRequests :
        LET out == ShardMux(store, rq) IN
        /\ out.resp.status \in {404, 405}
        /\ out.resp.body # ""
        /\ out.store = store

(***************************************************************************)
(* C12.  A GET /commit/<c>/file/<f> sent to the multiplexer is served by   *)
(* the commit handler from dataRepo/<c>: it answers with what commit c     *)
(* holds for f, whatever the query parameters name.                        *)
(***************************************************************************)
\* GET /commit/<c>/file/<f> with query q
ReadAtPath(c, f, q) ==
    [method |-> "GET", url |-> <<"", "commit", c>> \o Tail(urlOfFile(f)),
     query |-> q, body |-> 0]

CommitPathRead ==
    \A c \in SealedNames, f \in FileNames, q \in Queries :
        LET held == store[InRepo(dataRepo, c)].files[f]
            out == ShardMux(store, ReadAtPath(c, f, q)) IN
        /\ out = commitHandlerServe(store, ReadAtPath(c, f, q))
        /\ out.resp.fs = InRepo(dataRepo, c)
        /\ out.resp.data = held
        /\ out.resp.status = IF held = 0 THEN 404 ELSE 200

(***************************************************************************)
(* C13.  A POST /commit whose commit name is already taken in the data     *)
(* repo is answered with the status 409.                                   *)
(***************************************************************************)
\* The seal of request r failed on a name that was taken.
Collided(r) == pc[r] = "done" /\ ~Sealed(r) /\ response[r].body = "NameTaken"

CollisionIs409 == \A r \in Requests : Collided(r) => response[r].status = 409

(***************************************************************************)
(* C14.  When the glob of a file GET resolves to several entries, the      *)
(* parts of the multipart response are exactly the entries that are not    *)
(* directories and, when a shard parameter is given, that route.Match      *)
(* accepts for it, each with its contents, in the order of the glob; with  *)
(* a shard parameter no part lies outside the shard.                       *)
(***************************************************************************)
\* The root and the entries the served GET resolved to.
ServedRoot == InRepo(dataRepo, commitParam(req.query))

ServedGlob == btrfsGlob(store, ServedRoot, fileOf(req.url))

\* The request has been served and its glob had several entries.
ServedSeveral == served # NoServed /\ req.method = "GET" /\ Len(ServedGlob) > 1

\* Entry e belongs in the response to the served request.
Wanted(e) ==
    /\ ~IsDir(e)
    /\ shardParam(req.query) # "" =>
         /\ routeMatchErr(e, shardParam(req.query)) = ""
         /\ routeMatch(e, shardParam(req.query))

MultipartExact ==
    ServedSeveral =>
        /\ served.parts = [i \in 1..Len(SelectSeq(ServedGlob, Wanted)) |->
                              LET e == SelectSeq(ServedGlob, Wanted)[i] IN
                              [name |-> e, data |-> store[ServedRoot].files[e]]]
        /\ shardParam(req.query) # "" =>
             \A i \in 1..Len(served.parts) :
                 routeMatch(served.parts[i].name, shardParam(req.query))

\* A GET of * with shard 0-2 over a, b and the directory pipeline was
\* answered with the one part a.
MultipartExactWitness ==
    /\ ServedSeveral
    /\ ServedGlob = <<"a", "b", "pipeline">>
    /\ shardParam(req.query) = "0-2"
    /\ Len(served.parts) = 1 /\ served.parts[1].name = "a"

(***************************************************************************)
(* C15.  A GET /pipeline/<name>/file/<path> with commit c serves file      *)
(* content only once WaitPipeline has found commit c in the output repo of *)
(* the pipeline, and then serves it from that commit; when the wait ends   *)
(* with an error, the answer is the error with status 500 and no content.  *)
(***************************************************************************)
\* The commit of the output repo the served request names.
PipelineOutput == pathJoin(<<pipelinePrefix, Seg(req.url, 2), commitParam(req.query)>>)

\* What WaitPipeline returns for the served request in the current state.
WaitOutcome == WaitPipeline(store, pipelinePrefix, Seg(req.url, 2), commitParam(req.query))

ServedAfterWait ==
    /\ [](served # NoServed =>
            IF served.status = 200
            THEN /\ PipelineOutput \in DOMAIN store
                 /\ served.fs = PipelineOutput
                 /\ served.data = store[PipelineOutput].files["a"]
            ELSE /\ served.status = 500 /\ served.body = "Timeout"
                 /\ served.data = 0 /\ served.parts = <<>>)
    /\ [][served' # served =>
            /\ WaitOutcome = "" => served'.status = 200
            /\ WaitOutcome # "" => served'.status = 500 /\ served'.body = WaitOutcome]_vars

\* The output of commit c1 was served after the runner of c1 had completed.
ServedAfterWaitWitness ==
    /\ req.query.commit = "c1"
    /\ served.status = 200 /\ served.data = 1
    /\ \E r \in Requests : commit[r] = "c1" /\ runner[r].state = "Completed"

(***************************************************************************)
(* C16.  A commit on branch B changes the entry of B in the runners map    *)
(* and no other.  Cancel is invoked on a runner only by the goroutine of   *)
(* the commit that replaced it: the runner is of the same branch, has been *)
(* replaced in the map and is not the runner the map holds.                *)
(***************************************************************************)
\* The entry of branch b in the map, NilRunner when there is none.
Entry(m, b) == IF b \in DOMAIN m THEN m[b] ELSE NilRunner

CancelFrame ==
    /\ [][\A b \in Branches :
            Entry(runners', b) # Entry(runners, b) =>
                \E r \in Requests :
                    /\ pc[r] = "install" /\ pc'[r] = "unlock"
                    /\ branchParam(query[r]) = b
                    /\ Entry(runners', b) = r]_vars
    /\ [][\A o \in Requests :
            runner'[o].cancels > runner[o].cancels =>
                \E r \in Requests :
                    /\ gpc[r] = "cancel" /\ gpc'[r] = "cancelling"
                    /\ oldRunner[r] = o /\ Installed(r)
                    /\ runner[o].branch = branchParam(query[r])
                    /\ Entry(runners, runner[o].branch) # o]_vars

\* The first runner of master was cancelled after the second replaced it,
\* and the runner of dev was left alone.
CancelFrameWitness ==
    \E i, j, k \in Requests :
        /\ oldRunner[j] = i /\ runner[i].cancels = 1
        /\ Entry(runners, "master") = j
        /\ Entry(runners, "dev") = k /\ runner[k].cancels = 0
        /\ gpc[k] = "done"

(***************************************************************************)
(* C17.  When the seal of a POST /commit fails, the request is answered    *)
(* with the error and status 500, not with the commit name, and does       *)
(* nothing else: the step leaves the disk, the runners map, the runners    *)
(* and the goroutines as they were, and the request constructs no runner   *)
(* and starts no goroutine.                                                *)
(***************************************************************************)
\* The seal of request r has failed.
SealFailed(r) == pc[r] = "done" /\ ~Sealed(r)

SealFailureStops ==
    /\ [](\A r \in Requests :
            SealFailed(r) =>
                /\ response[r].status = 500
                /\ response[r].body \in {"MissingBranch", "NameTaken"}
                /\ response[r].body # commit[r]
                /\ runner[r] = NoRunner /\ oldRunner[r] = NilRunner
                /\ gpc[r] = "none"
                /\ \A b \in DOMAIN runners : runners[b] # r
                /\ \A o \in Requests : oldRunner[o] # r)
    /\ [][\A r \in Requests :
            (pc[r] = "sealing" /\ pc'[r] = "done") =>
                UNCHANGED <<store, runners, runner, guard, gpc, syncing, logged>>]_vars

\* The seal of one request failed while the runner of another was running
\* and a peer sync was under way.
SealFailureStopsWitness ==
    \E r, o \in Requests :
        /\ SealFailed(r) /\ response[r].body = "NameTaken"
        /\ runner[o].state = "Running" /\ Entry(runners, "master") = o
        /\ syncing > 0

(***************************************************************************)
(* C18.  A POST /commit with a body only applies the pushed commits: the   *)
(* step leaves the runners map, the runners, the goroutines and the count  *)
(* of peer syncs as they were.  The peer syncs triggered are one per local *)
(* commit that was sealed and has passed line 163, and no runner is ever   *)
(* built for a pushed commit.                                              *)
(***************************************************************************)
\* The paths of the commits that pushes have applied.
Pushed(st) == {InRepo(dataRepo, PushedName(d)) : d \in Data \ {0}} \cap DOMAIN st

\* The local commits that have started their goroutines.
Synced == {r \in Requests : Sealed(r) /\ pc[r] \in {"respond", "done"}}

PushOnlyApplies ==
    /\ [](syncing = Cardinality(Synced))
    /\ [](\A r \in Requests :
            /\ InRepo(dataRepo, runner[r].commit) \notin Pushed(store)
            /\ Installed(r) => Sealed(r))
    /\ [][Pushed(store') # Pushed(store) =>
            /\ UNCHANGED <<runners, runner, oldRunner, guard, gpc, syncing, pc>>
            /\ \A n \in DOMAIN store : store'[n] = store[n]]_vars

\* Both pushed commits were applied, two local commits were answered, and
\* two peer syncs were triggered.
PushOnlyAppliesWitness ==
    /\ Cardinality(Pushed(store)) = 2
    /\ Cardinality({r \in Requests : pc[r] = "done" /\ Sealed(r)}) = 2
    /\ syncing = 2

(***************************************************************************)
(* C19.  Under fair scheduling, with every Cancel call returning, every    *)
(* runner that was installed eventually has Run invoked on it, and every   *)
(* runner that was replaced in the map eventually has Cancel invoked on    *)
(* it; neither is ever invoked on a runner more than once.                 *)
(***************************************************************************)
\* The runner of request r has been replaced in the map.
Replaced(r) == \E j \in Requests : Installed(j) /\ oldRunner[j] = r

RunAndCancelOnce ==
    /\ [](\A r \in Requests : runner[r].runs <= 1 /\ runner[r].cancels <= 1)
    /\ \A r \in Requests : [](Installed(r) => <>(runner[r].runs = 1))
    /\ \A r \in Requests : [](Replaced(r) => <>(runner[r].cancels = 1))

\* Three commits on master: the first two runners were replaced and
\* cancelled once, all three were started once, every goroutine has ended.
RunAndCancelOnceWitness ==
    /\ oldRunner = <<NilRunner, 1, 2>>
    /\ \A r \in Requests : runner[r].runs = 1 /\ gpc[r] = "done"
    /\ runner[1].cancels = 1 /\ runner[2].cancels = 1 /\ runner[3].cancels = 0

====
